---- MODULE Spec2Model ----
(***************************************************************************)
(* Model of fvcom-py/read_FVCOM_results.py: readFVCOM (the extractor) and  *)
(* getSurfaceElevation (the surface-elevation selector).                   *)
(*                                                                         *)
(* Spec runs one call of either function, statement by statement.          *)
(*                                                                         *)
(* A NetCDF variable's data are not modelled cell by cell: an extracted    *)
(* array is the sequence, one entry per axis, of the source indices it     *)
(* holds along that axis (netCDF4 indexes each axis independently).  Its   *)
(* shape is the sequence of the lengths of those entries.                  *)
(* The diagnostic printing under `noisy' changes no state and is left out. *)
(***************************************************************************)
EXTENDS Integers, Sequences, FiniteSets, TLC

VARIABLES
    \* ---- readFVCOM ----
    file,          \* the NetCDF file: its dimensions and its variables
    varList,       \* the requested variable names
    clipDims,      \* the clipDims argument: not given (False) or a dict
    netCDF4,       \* whether `from netCDF4 import Dataset' can succeed
    pc,            \* position of the call
    rootgrp,       \* the file handle: "unbound", "open" or "closed"
    opens,         \* how many times Dataset(file, 'r') was called
    imports,       \* how many times the import was attempted
    dims,          \* the local dict dims
    todo,          \* variables the loop of line 71 has still to visit
    applied,       \* per extracted variable, the toExtract list it was sliced with
    FVCOM,         \* the local dict FVCOM
    err,           \* the exception the call ended with, "none" otherwise
    returned,      \* whether the caller received a dict
    \* ---- getSurfaceElevation ----
    Z,             \* the input array, Z[t][x]
    idx,           \* the index list
    numpy,         \* whether `import numpy as np' can succeed
    pcS,           \* position of the call
    fresh,         \* what np.empty handed back (arbitrary memory)
    surfaceElevation, \* the local array
    cnt,           \* position of the loop of line 130
    errS,          \* the exception the call ended with, "none" otherwise
    returnedS      \* whether the caller received an array

rvars == <<file, varList, clipDims, netCDF4, pc, rootgrp, opens, imports, dims,
           todo, applied, FVCOM, err, returned>>
svars == <<Z, idx, numpy, pcS, fresh, surfaceElevation, cnt, errS, returnedS>>
vars == <<rvars, svars>>

----------------------------------------------------------------------------
(* Bounds *)

\* largest declared extent of a dimension
MaxExtent == 2
\* largest stop of a caller-supplied range (beyond MaxExtent, so that a range
\* can run past the end of a dimension)
MaxStop == 3
\* largest number of time steps of Z
MaxNt == 2
\* largest number of spatial points of Z
MaxNx == 2
\* largest length of the index list
MaxK == 2

----------------------------------------------------------------------------
(* Values *)

Min(a, b) == IF a < b THEN a ELSE b

\* The text 'lo:hi'
Range(lo, hi) == [kind |-> "range", lo |-> lo, hi |-> hi]
\* The text '[i, j, ...]' (or the list ['i, j, ...'] of the docstring, which
\* str() and the removal of the quotes turn into the same text)
IndexList(s) == [kind |-> "list", idx |-> s]
\* A text that is no subscript at all
Malformed == [kind |-> "bad"]

\* The empty dict
EmptyDict == [k \in {} |-> 0]

\* d without key k
Without(d, k) == [j \in (DOMAIN d) \ {k} |-> d[j]]

\* <<0, 1, ..., n-1>>
UpTo(n) == [i \in 1..n |-> i - 1]

----------------------------------------------------------------------------
(* Inputs of readFVCOM *)

\* Dimension names a file declares, and one it does not
FileDims == {"time", "node"}
ClipKeys == FileDims \cup {"siglay"}

\* The variables of a file with the dimensions each is declared over:
\* a 2-D field, a 1-D field and a scalar
FileVariables ==
    [v \in {"zeta", "h", "nprocs"} |->
        CASE v = "zeta" -> <<"time", "node">>
          [] v = "h" -> <<"node">>
          [] OTHER -> <<>>]

Files ==
    {[dimensions |-> d, variables |-> FileVariables] :
        d \in [FileDims -> 1..MaxExtent]}

\* Names a caller may ask for: the declared ones and one no file declares
RequestNames == DOMAIN FileVariables \cup {"temp"}

\* What a caller may give for a declared dimension
ClipRanges == {Range(lo, hi) : lo \in 0..1, hi \in 1..MaxStop}
ClipLists == {IndexList(<<0>>), IndexList(<<1, 0>>), IndexList(<<MaxExtent>>)}
ClipValues == ClipRanges \cup ClipLists \cup {Malformed}
\* ... and for a name that may be no dimension of the file
OtherValues == {Range(0, 1), Malformed}

ValuesFor(k) == IF k \in FileDims THEN ClipValues ELSE OtherValues

ClipDicts ==
    UNION {{m \in [K -> ClipValues \cup OtherValues] :
               \A k \in K : m[k] \in ValuesFor(k)} : K \in SUBSET ClipKeys}

\* clipDims=False, or a dict
ClipArgs ==
    {[given |-> FALSE, map |-> EmptyDict]} \cup
    {[given |-> TRUE, map |-> m] : m \in ClipDicts}

----------------------------------------------------------------------------
(* readFVCOM: the expressions *)

\* Line 57 one short: '0:' + str(len(var) - 1)
FullRangeShort(n) == Range(0, n - 1)

\* '0:' + str(len(var))
FullRange(n) == Range(0, n)

\* The loop of lines 53-57
DefaultDims(dimensions) ==
    [k \in DOMAIN dimensions |-> FullRange(dimensions[k])]

\* Line 75 with its test inverted: key not in varList
RequestedInverted(key, vl) == key \notin vl

\* Line 75: key in varList
Requested(key, vl) == key \in vl

\* set(dims).intersection(clipDims.keys())
CommonKeys(d, clip) == (DOMAIN d) \cap (DOMAIN clip)

\* Lines 62-65 left out: clipDims is never applied
ApplyClipNever(d, clip) == d

\* Lines 62-65 with clipDims applied only when all its keys are dimensions
ApplyClipStrict(d, clip) ==
    IF clip.given /\ (DOMAIN clip.map) \subseteq (DOMAIN d)
    THEN [k \in DOMAIN d |-> IF k \in DOMAIN clip.map THEN clip.map[k] ELSE d[k]]
    ELSE d

\* Lines 62-65
ApplyClip(d, clip) ==
    IF clip.given
    THEN [k \in DOMAIN d |->
             IF k \in CommonKeys(d, clip.map) THEN clip.map[k] ELSE d[k]]
    ELSE d

\* Lines 76-79 with the variable's dimensions taken last to first
ToExtractReversed(vDims, d) ==
    [k \in 1..Len(vDims) |-> d[vDims[Len(vDims) - k + 1]]]

\* Lines 76-79: one entry of dims per dimension of the variable, in the
\* variable's order
ToExtract(vDims, d) == [k \in 1..Len(vDims) |-> d[vDims[k]]]

\* The source indices a subscript selects along an axis of n entries.  A
\* slice lo:hi is cut to the axis (Python slice semantics); an index list
\* is taken as given, sorted or not (lines 18-19: an unsorted list is slow,
\* not refused).
AxisIndices(sel, n) ==
    IF sel.kind = "range"
    THEN LET stop == Min(sel.hi, n)
             len == IF stop > sel.lo THEN stop - sel.lo ELSE 0
         IN  [i \in 1..len |-> sel.lo + i - 1]
    ELSE sel.idx

\* An index list naming an entry the axis does not have
AxisOutOfRange(sel, n) ==
    /\ sel.kind = "list"
    /\ \E i \in 1..Len(sel.idx) : sel.idx[i] >= n

\* Lines 82-83: the text rootgrp.variables['key'][a, b, ...] and its eval.
\* An empty subscript (a variable without dimensions) and a malformed entry
\* do not parse; an index outside the axis is refused by the library.
GetData(f, key, toExtract) ==
    LET vDims == f.variables[key]
        n(k) == f.dimensions[vDims[k]]
    IN  IF Len(toExtract) = 0 \/ \E k \in 1..Len(toExtract) : toExtract[k].kind = "bad"
        THEN [error |-> "SyntaxError", value |-> <<>>]
        ELSE IF \E k \in 1..Len(toExtract) : AxisOutOfRange(toExtract[k], n(k))
        THEN [error |-> "IndexError", value |-> <<>>]
        ELSE [error |-> "none",
              value |-> [k \in 1..Len(toExtract) |-> AxisIndices(toExtract[k], n(k))]]

\* shape of an extracted array
Shape(a) == [k \in 1..Len(a) |-> Len(a[k])]

----------------------------------------------------------------------------
(* getSurfaceElevation is idle while readFVCOM runs, and the reverse *)

IdleS ==
    /\ Z = <<>> /\ idx = <<>> /\ numpy = TRUE /\ pcS = "idle"
    /\ fresh = <<>> /\ surfaceElevation = <<>> /\ cnt = 0
    /\ errS = "none" /\ returnedS = FALSE

IdleR ==
    /\ file = [dimensions |-> EmptyDict, variables |-> EmptyDict]
    /\ varList = {} /\ clipDims = [given |-> FALSE, map |-> EmptyDict]
    /\ netCDF4 = TRUE /\ pc = "idle" /\ rootgrp = "unbound" /\ opens = 0
    /\ imports = 0 /\ dims = EmptyDict /\ todo = {} /\ applied = EmptyDict
    /\ FVCOM = EmptyDict /\ err = "none" /\ returned = FALSE

----------------------------------------------------------------------------
(* readFVCOM: the call *)

InitR ==
    /\ file \in Files
    /\ varList \in SUBSET RequestNames
    /\ clipDims \in ClipArgs
    /\ netCDF4 \in BOOLEAN
    /\ pc = "import"
    /\ rootgrp = "unbound"
    /\ opens = 0
    /\ imports = 0
    /\ dims = EmptyDict
    /\ todo = {}
    /\ applied = EmptyDict
    /\ FVCOM = EmptyDict
    /\ err = "none"
    /\ returned = FALSE
    /\ IdleS

\* Lines 45-46: the import succeeds
Import ==
    /\ pc = "import"
    /\ netCDF4
    /\ imports' = imports + 1
    /\ pc' = "open"
    /\ UNCHANGED <<file, varList, clipDims, netCDF4, rootgrp, opens, dims, todo,
                   applied, FVCOM, err, returned>>
    /\ UNCHANGED svars

\* Lines 47-48 with the ImportError swallowed: the call goes on
ImportFailsSwallowed ==
    /\ pc = "import"
    /\ ~netCDF4
    /\ imports' = imports + 1
    /\ pc' = "open"
    /\ UNCHANGED <<file, varList, clipDims, netCDF4, rootgrp, opens, dims, todo,
                   applied, FVCOM, err, returned>>
    /\ UNCHANGED svars

\* Lines 47-48: the import fails
ImportFails ==
    /\ pc = "import"
    /\ ~netCDF4
    /\ imports' = imports + 1
    /\ err' = "ImportError: Failed to load the NetCDF4 library"
    /\ pc' = "raised"
    /\ UNCHANGED <<file, varList, clipDims, netCDF4, rootgrp, opens, dims, todo,
                   applied, FVCOM, returned>>
    /\ UNCHANGED svars

\* Line 50: rootgrp = Dataset(file, 'r')
Open ==
    /\ pc = "open"
    /\ rootgrp' = "open"
    /\ opens' = opens + 1
    /\ pc' = "dims"
    /\ UNCHANGED <<file, varList, clipDims, netCDF4, imports, dims, todo,
                   applied, FVCOM, err, returned>>
    /\ UNCHANGED svars

\* Lines 52-57
ReadDims ==
    /\ pc = "dims"
    /\ dims' = DefaultDims(file.dimensions)
    /\ pc' = "clip"
    /\ UNCHANGED <<file, varList, clipDims, netCDF4, rootgrp, opens, imports,
                   todo, applied, FVCOM, err, returned>>
    /\ UNCHANGED svars

\* Lines 59-70
Clip ==
    /\ pc = "clip"
    /\ dims' = ApplyClip(dims, clipDims)
    /\ FVCOM' = EmptyDict
    /\ todo' = DOMAIN file.variables
    /\ pc' = "loop"
    /\ UNCHANGED <<file, varList, clipDims, netCDF4, rootgrp, opens, imports,
                   applied, err, returned>>
    /\ UNCHANGED svars

\* Lines 71-75, 91-93: a variable that was not asked for
Skip(key) ==
    /\ pc = "loop"
    /\ key \in todo
    /\ ~Requested(key, varList)
    /\ todo' = todo \ {key}
    /\ UNCHANGED <<file, varList, clipDims, netCDF4, pc, rootgrp, opens, imports,
                   dims, applied, FVCOM, err, returned>>
    /\ UNCHANGED svars

\* Lines 71-83: a variable that was asked for, and its slicing succeeds
Extract(key) ==
    /\ pc = "loop"
    /\ key \in todo
    /\ Requested(key, varList)
    /\ LET toExtract == ToExtract(file.variables[key], dims)
           got == GetData(file, key, toExtract)
       IN  /\ got.error = "none"
           /\ applied' = [k \in DOMAIN applied \cup {key} |->
                             IF k = key THEN toExtract ELSE applied[k]]
           /\ FVCOM' = [k \in DOMAIN FVCOM \cup {key} |->
                           IF k = key THEN got.value ELSE FVCOM[k]]
    /\ todo' = todo \ {key}
    /\ UNCHANGED <<file, varList, clipDims, netCDF4, pc, rootgrp, opens, imports,
                   dims, err, returned>>
    /\ UNCHANGED svars

\* Lines 71-83: a variable that was asked for, and its slicing raises
ExtractFails(key) ==
    /\ pc = "loop"
    /\ key \in todo
    /\ Requested(key, varList)
    /\ LET toExtract == ToExtract(file.variables[key], dims)
           got == GetData(file, key, toExtract)
       IN  /\ got.error # "none"
           /\ applied' = [k \in DOMAIN applied \cup {key} |->
                             IF k = key THEN toExtract ELSE applied[k]]
           /\ err' = got.error
    /\ pc' = "raised"
    /\ UNCHANGED <<file, varList, clipDims, netCDF4, rootgrp, opens, imports,
                   dims, todo, FVCOM, returned>>
    /\ UNCHANGED svars

\* Line 95 preceded by rootgrp.close()
ReturnClosing ==
    /\ pc = "loop"
    /\ todo = {}
    /\ rootgrp' = "closed"
    /\ returned' = TRUE
    /\ pc' = "done"
    /\ UNCHANGED <<file, varList, clipDims, netCDF4, opens, imports,
                   dims, todo, applied, FVCOM, err>>
    /\ UNCHANGED svars

\* Line 95: return FVCOM
Return ==
    /\ pc = "loop"
    /\ todo = {}
    /\ returned' = TRUE
    /\ pc' = "done"
    /\ UNCHANGED <<file, varList, clipDims, netCDF4, rootgrp, opens, imports,
                   dims, todo, applied, FVCOM, err>>
    /\ UNCHANGED svars

NextR ==
    \/ Import
    \/ ImportFails
    \/ Open
    \/ ReadDims
    \/ Clip
    \/ \E key \in DOMAIN file.variables : Skip(key)
    \/ \E key \in DOMAIN file.variables : Extract(key)
    \/ \E key \in DOMAIN file.variables : ExtractFails(key)
    \/ Return

----------------------------------------------------------------------------
(* Inputs of getSurfaceElevation *)

\* An entry of the index list: the missing-value marker (nan) or an integer
Missing == [nan |-> TRUE, i |-> 0]
At(n) == [nan |-> FALSE, i |-> n]

\* Z of shape (nt, nx); every cell holds a value of its own, so that a copy
\* can be told from any other
Elevations(nt, nx) == [t \in 1..nt |-> [x \in 1..nx |-> 10 * t + x]]

\* Index lists of length 0..MaxK: missing markers, indices of Z (the last
\* column also as -1), and nx, which Z does not have
IndexEntries(nx) == {Missing} \cup {At(n) : n \in -1..nx}
IndexListsOf(nx) ==
    UNION {[1..k -> IndexEntries(nx)] : k \in 0..MaxK}

\* What uninitialised memory may hold: a value no cell of Z holds, and one
\* that a cell of Z holds
Garbage == {0, 11}

----------------------------------------------------------------------------
(* getSurfaceElevation: the expressions *)

\* np.isnan(i)
IsNan(e) == e.nan

\* Whether Z[:, i] exists: -nx <= i < nx
InRange(a, i) == -Len(a[1]) <= i /\ i < Len(a[1])

\* Z[:, 0] whatever i is
ColumnFirst(a, i) == [t \in 1..Len(a) |-> a[t][1]]

\* Z[:, i]: column i, counted from the end when i is negative
Column(a, i) ==
    [t \in 1..Len(a) |-> a[t][IF i >= 0 THEN i + 1 ELSE Len(a[1]) + i + 1]]

\* surfaceElevation[:, :] = col, written across every column
AssignEveryColumn(out, c, col) ==
    [t \in 1..Len(out) |-> [j \in 1..Len(out[t]) |-> col[t]]]

\* surfaceElevation[:, c] = col
AssignColumn(out, c, col) ==
    [t \in 1..Len(out) |->
        [j \in 1..Len(out[t]) |-> IF j = c + 1 THEN col[t] ELSE out[t][j]]]

\* Column c of an array, as a sequence over time
ColumnOf(out, c) == [t \in 1..Len(out) |-> out[t][c + 1]]

----------------------------------------------------------------------------
(* getSurfaceElevation: the call *)

InitS ==
    /\ \E nt \in 1..MaxNt, nx \in 1..MaxNx :
          /\ Z = Elevations(nt, nx)
          /\ idx \in IndexListsOf(nx)
    /\ numpy \in BOOLEAN
    /\ pcS = "import"
    /\ fresh = <<>>
    /\ surfaceElevation = <<>>
    /\ cnt = 0
    /\ errS = "none"
    /\ returnedS = FALSE
    /\ IdleR

\* Lines 122-123: the import succeeds
ImportS ==
    /\ pcS = "import"
    /\ numpy
    /\ pcS' = "alloc"
    /\ UNCHANGED <<Z, idx, numpy, fresh, surfaceElevation, cnt, errS, returnedS>>
    /\ UNCHANGED rvars

\* Lines 124-125: the import fails
ImportFailsS ==
    /\ pcS = "import"
    /\ ~numpy
    /\ errS' = "ImportError: NumPy not found"
    /\ pcS' = "raised"
    /\ UNCHANGED <<Z, idx, numpy, fresh, surfaceElevation, cnt, returnedS>>
    /\ UNCHANGED rvars

\* Lines 127-129: np.empty([nt, len(idx)]) hands back memory as it is
Allocate ==
    /\ pcS = "alloc"
    /\ \E m \in [1..Len(Z) -> [1..Len(idx) -> Garbage]] :
          /\ fresh' = m
          /\ surfaceElevation' = m
    /\ cnt' = 0
    /\ pcS' = "loop"
    /\ UNCHANGED <<Z, idx, numpy, errS, returnedS>>
    /\ UNCHANGED rvars

\* Lines 130-131: a missing marker, nothing is written
SkipMissing ==
    /\ pcS = "loop"
    /\ cnt < Len(idx)
    /\ IsNan(idx[cnt + 1])
    /\ cnt' = cnt + 1
    /\ UNCHANGED <<Z, idx, numpy, pcS, fresh, surfaceElevation, errS, returnedS>>
    /\ UNCHANGED rvars

\* Lines 130-132: an index of Z, its column is copied
CopyColumn ==
    /\ pcS = "loop"
    /\ cnt < Len(idx)
    /\ ~IsNan(idx[cnt + 1])
    /\ InRange(Z, idx[cnt + 1].i)
    /\ surfaceElevation' =
          AssignColumn(surfaceElevation, cnt, Column(Z, idx[cnt + 1].i))
    /\ cnt' = cnt + 1
    /\ UNCHANGED <<Z, idx, numpy, pcS, fresh, errS, returnedS>>
    /\ UNCHANGED rvars

\* Lines 130-132: an index Z does not have, the array library raises
CopyFails ==
    /\ pcS = "loop"
    /\ cnt < Len(idx)
    /\ ~IsNan(idx[cnt + 1])
    /\ ~InRange(Z, idx[cnt + 1].i)
    /\ errS' = "IndexError"
    /\ pcS' = "raised"
    /\ UNCHANGED <<Z, idx, numpy, fresh, surfaceElevation, cnt, returnedS>>
    /\ UNCHANGED rvars

\* Line 134: return surfaceElevation
ReturnS ==
    /\ pcS = "loop"
    /\ cnt = Len(idx)
    /\ returnedS' = TRUE
    /\ pcS' = "done"
    /\ UNCHANGED <<Z, idx, numpy, fresh, surfaceElevation, cnt, errS>>
    /\ UNCHANGED rvars

NextS ==
    \/ ImportS
    \/ ImportFailsS
    \/ Allocate
    \/ SkipMissing
    \/ CopyColumn
    \/ CopyFails
    \/ ReturnS

----------------------------------------------------------------------------
(* One call of either function *)

Init == InitR \/ InitS

Next == NextR \/ NextS

Spec == Init /\ [][Next]_vars

----------------------------------------------------------------------------
(* Properties of readFVCOM *)

\* The names the file declares
Declared == DOMAIN file.variables

\* The entry of clipDims for dimension d, when there is one
Clipped(d) == clipDims.given /\ d \in DOMAIN clipDims.map

\* The selection the call is to use for dimension d: the caller's, or the
\* whole dimension
ResolvedFor(d) ==
    IF Clipped(d) THEN clipDims.map[d] ELSE Range(0, file.dimensions[d])

\* a holds exactly the numbers lo, lo+1, ... below hi, in ascending order
IsInterval(a, lo, hi) ==
    /\ Len(a) = Cardinality({i \in 0..(MaxStop + MaxExtent) : lo <= i /\ i < hi})
    /\ \A j \in 1..Len(a) : a[j] = lo + j - 1

\* a holds what the caller's text says, read on its own
IsAsSupplied(a, sel) ==
    IF sel.kind = "range" THEN IsInterval(a, sel.lo, sel.hi) ELSE a = sel.idx

\* a holds what the caller's text says, a range cut to the n entries of the axis
IsAsSuppliedWithin(a, sel, n) ==
    IF sel.kind = "range" THEN IsInterval(a, sel.lo, Min(sel.hi, n)) ELSE a = sel.idx

C7_EveryRequestedNameIsKey ==
    pc = "done" => varList \subseteq DOMAIN FVCOM

\* C2 as stated: along every dimension named in clipDims and declared in the
\* file, an extracted variable holds exactly the caller-supplied range or
\* index list.
C2_ClippedAxisIsExactlyAsSupplied ==
    \A key \in DOMAIN FVCOM :
        \A k \in 1..Len(file.variables[key]) :
            Clipped(file.variables[key][k]) =>
                IsAsSupplied(FVCOM[key][k], clipDims.map[file.variables[key][k]])

\* C2 amended: along every dimension named in clipDims and declared in the
\* file, an extracted variable holds exactly the caller-supplied index list,
\* or the caller-supplied range lo:hi cut to the dimension's declared extent
\* (the indices lo .. min(hi, extent)-1).
C2_ClippedAxisIsAsSuppliedWithinExtent ==
    \A key \in DOMAIN FVCOM :
        /\ Len(FVCOM[key]) = Len(file.variables[key])
        /\ \A k \in 1..Len(file.variables[key]) :
              Clipped(file.variables[key][k]) =>
                  IsAsSuppliedWithin(FVCOM[key][k],
                                     clipDims.map[file.variables[key][k]],
                                     file.dimensions[file.variables[key][k]])

\* C2 witness: zeta (time, node) returned with time clipped to the range 1:2
\* inside an extent of 2 and node clipped to the index list [1, 0].
C2_Witness ==
    /\ pc = "done"
    /\ "zeta" \in DOMAIN FVCOM
    /\ file.dimensions["time"] = 2
    /\ Clipped("time") /\ clipDims.map["time"] = Range(1, 2)
    /\ Clipped("node") /\ clipDims.map["node"] = IndexList(<<1, 0>>)
    /\ FVCOM["zeta"] = <<<<1>>, <<1, 0>>>>

\* C3: along every dimension that is no key of clipDims (clipDims given or
\* not), an extracted variable holds the indices 0 .. extent-1.
C3_UnclippedAxisIsFull ==
    \A key \in DOMAIN FVCOM :
        /\ Len(FVCOM[key]) = Len(file.variables[key])
        /\ \A k \in 1..Len(file.variables[key]) :
              ~Clipped(file.variables[key][k]) =>
                  FVCOM[key][k] = UpTo(file.dimensions[file.variables[key][k]])

\* C3 witness: zeta returned with time clipped and node, of extent 2, not.
C3_Witness ==
    /\ pc = "done"
    /\ "zeta" \in DOMAIN FVCOM
    /\ Clipped("time") /\ ~Clipped("node")
    /\ file.dimensions["node"] = 2
    /\ FVCOM["zeta"][2] = <<0, 1>>

\* The outcome of the call for clipDims without key k, and the state agrees
\* with it
SameAsWithout(k) ==
    LET reduced == [given |-> TRUE, map |-> Without(clipDims.map, k)]
        d0 == ApplyClip(DefaultDims(file.dimensions), reduced)
        got(key) == GetData(file, key, ToExtract(file.variables[key], d0))
    IN  /\ pc \in {"loop", "done"} => dims = d0
        /\ \A key \in DOMAIN FVCOM :
              got(key).error = "none" /\ FVCOM[key] = got(key).value
        /\ pc = "done" =>
              DOMAIN FVCOM = {key \in varList \cap Declared : got(key).error = "none"}
        /\ (pc = "raised" /\ opens = 1) =>
              \E key \in varList \cap Declared : got(key).error = err

\* C4: a key of clipDims that is no dimension of the file has no effect: the
\* resolved dims, every extracted array, the returned dict and any error
\* raised are those of the call with that key removed from clipDims.
C4_UndeclaredClipKeyHasNoEffect ==
    clipDims.given =>
        \A k \in (DOMAIN clipDims.map) \ (DOMAIN file.dimensions) : SameAsWithout(k)

\* C4 witness: a return with a malformed entry under the undeclared key
\* siglay, next to an entry for time that did take effect.
C4_Witness ==
    /\ pc = "done"
    /\ clipDims.given
    /\ DOMAIN clipDims.map = {"siglay", "time"}
    /\ clipDims.map["siglay"] = Malformed
    /\ clipDims.map["time"] = Range(0, 1)
    /\ "zeta" \in DOMAIN FVCOM
    /\ Shape(FVCOM["zeta"]) = <<1, file.dimensions["node"]>>

\* C9: every variable is sliced with one resolved selection per declared
\* dimension, in the variable's own dimension order, and the k-th axis of the
\* extracted array holds what the selection of the k-th dimension selects.
C9_SliceFollowsVariableDimensionOrder ==
    /\ \A key \in DOMAIN applied :
          /\ Len(applied[key]) = Len(file.variables[key])
          /\ \A k \in 1..Len(file.variables[key]) :
                applied[key][k] = ResolvedFor(file.variables[key][k])
    /\ \A key \in DOMAIN FVCOM :
          /\ key \in DOMAIN applied
          /\ Len(FVCOM[key]) = Len(file.variables[key])
          /\ \A k \in 1..Len(file.variables[key]) :
                IsAsSuppliedWithin(FVCOM[key][k],
                                   ResolvedFor(file.variables[key][k]),
                                   file.dimensions[file.variables[key][k]])

\* C9 witness: zeta (time, node) extracted after h, from a file whose two
\* dimensions differ in extent, with node clipped and time not.
C9_Witness ==
    /\ pc = "loop"
    /\ todo = {"nprocs"}
    /\ file.dimensions["time"] = 1 /\ file.dimensions["node"] = 2
    /\ Clipped("node") /\ clipDims.map["node"] = IndexList(<<1, 0>>)
    /\ ~Clipped("time")
    /\ DOMAIN FVCOM = {"zeta", "h"}
    /\ applied["zeta"] = <<Range(0, 1), IndexList(<<1, 0>>)>>
    /\ FVCOM["zeta"] = <<<<0>>, <<1, 0>>>>

\* C10, the state part: the handle is opened once, before dims is resolved,
\* and is open on return and when slicing a variable raised.
HandleStaysOpen ==
    /\ opens <= 1
    /\ pc \in {"dims", "clip", "loop", "done"} => (opens = 1 /\ rootgrp = "open")
    /\ dims # EmptyDict => opens = 1
    /\ (pc = "raised" /\ err \in {"SyntaxError", "IndexError"}) =>
          (opens = 1 /\ rootgrp = "open")

\* C10: readFVCOM opens the handle once, before resolving the dimensions, and
\* never releases it: it is open on return and when an error raised while
\* slicing a variable leaves the call; no step changes the file.
C10_HandleOpenedOnceNeverReleased ==
    []HandleStaysOpen /\ [][file' = file]_vars

\* C10 witness: the call left by an IndexError raised while slicing zeta,
\* after h was extracted, the handle open.
C10_Witness ==
    /\ pc = "raised" /\ err = "IndexError"
    /\ DOMAIN FVCOM = {"h"} /\ "zeta" \in DOMAIN applied
    /\ opens = 1 /\ rootgrp = "open"

\* The other exit: a return with the handle open.
C10_ReturnReached ==
    pc = "done" /\ returned /\ rootgrp = "open" /\ DOMAIN FVCOM = {"zeta", "h"}

----------------------------------------------------------------------------
(* Properties of getSurfaceElevation *)

\* Position c of the index list holds an index of Z, 0 <= i < nx
ValidAt(c) == ~idx[c + 1].nan /\ 0 <= idx[c + 1].i /\ idx[c + 1].i < Len(Z[1])

\* C5: when getSurfaceElevation returns, the array has shape (nt, K), and for
\* every position c holding a valid index, column c equals column idx[c] of Z.
C5_ValidColumnsAreCopies ==
    pcS = "done" =>
        /\ returnedS
        /\ Len(surfaceElevation) = Len(Z)
        /\ \A t \in 1..Len(Z) : Len(surfaceElevation[t]) = Len(idx)
        /\ \A c \in 0..(Len(idx) - 1) :
              ValidAt(c) =>
                  \A t \in 1..Len(Z) :
                      surfaceElevation[t][c + 1] = Z[t][idx[c + 1].i + 1]

\* C5 witness: a return for the index list [1, missing] over two time steps,
\* from memory that held none of Z's values.
C5_Witness ==
    /\ pcS = "done"
    /\ Len(Z) = 2 /\ Len(Z[1]) = 2
    /\ idx = <<At(1), Missing>>
    /\ fresh = <<<<0, 0>>, <<0, 0>>>>
    /\ surfaceElevation = <<<<12, 0>>, <<22, 0>>>>

\* C6: from its allocation on, every column of the output whose position in
\* the index list holds the missing marker is as np.empty handed it back.
C6_MissingColumnsUntouched ==
    pcS \in {"loop", "done", "raised"} =>
        \A c \in 0..(Len(idx) - 1) :
            IsNan(idx[c + 1]) =>
                ColumnOf(surfaceElevation, c) = ColumnOf(fresh, c)

\* C6 witness: a return for the index list [missing, 0], the column after
\* the missing one written.
C6_Witness ==
    /\ pcS = "done"
    /\ Len(Z) = 2
    /\ idx = <<Missing, At(0)>>
    /\ fresh = <<<<11, 0>>, <<0, 11>>>>
    /\ surfaceElevation = <<<<11, 11>>, <<0, 21>>>>

----------------------------------------------------------------------------
(* Properties of both *)

\* C8: without the NetCDF reader readFVCOM, and without the array library
\* getSurfaceElevation, does nothing but raise the ImportError with its fixed
\* message: one attempt, no handle opened, nothing read or allocated, nothing
\* returned.
C8_MissingCapabilityFailsFirst ==
    /\ (pc # "idle" /\ ~netCDF4) =>
          /\ pc \in {"import", "raised"}
          /\ imports <= 1
          /\ rootgrp = "unbound" /\ opens = 0
          /\ dims = EmptyDict /\ applied = EmptyDict /\ FVCOM = EmptyDict
          /\ ~returned
          /\ pc = "raised" =>
                (imports = 1 /\ err = "ImportError: Failed to load the NetCDF4 library")
    /\ (pcS # "idle" /\ ~numpy) =>
          /\ pcS \in {"import", "raised"}
          /\ fresh = <<>> /\ surfaceElevation = <<>> /\ cnt = 0
          /\ ~returnedS
          /\ pcS = "raised" => errS = "ImportError: NumPy not found"

\* C8 witness: readFVCOM, asked for zeta with a clipDims, ended by the
\* ImportError.
C8_Witness ==
    /\ pc = "raised" /\ ~netCDF4 /\ imports = 1
    /\ varList = {"zeta"} /\ clipDims.given
    /\ err = "ImportError: Failed to load the NetCDF4 library"

\* The same for getSurfaceElevation.
C8_SelectorReached ==
    /\ pcS = "raised" /\ ~numpy /\ Len(idx) = 2
    /\ errS = "ImportError: NumPy not found"

====
